---- MODULE Spec2Model ----
(***************************************************************************)
(* Model of Macropad_Hotkeys/host/macropad_appname.py: the reconnect       *)
(* supervisor (main), the port locator (find_port), the serial open with   *)
(* its drain loop (open_port), the session tick loop (run_session), the    *)
(* command dispatch (handle_serial_command) and the mute toggle            *)
(* (toggle_mic).                                                           *)
(*                                                                         *)
(* Text and bytes are sequences of one-character strings.  "xFF" is a byte *)
(* that is invalid in UTF-8, "uFFFD" the replacement character, "u00E9" a  *)
(* non-ASCII letter whose UTF-8 encoding is the two bytes "xC3" "xA9".     *)
(*                                                                         *)
(* The environment is the device (plugged or not, sending bytes, hanging   *)
(* up), the host audio input (its volume, or no volume control at all),    *)
(* the frontmost-application query, and the user pressing Ctrl-C.          *)
(* KeyboardInterrupt is delivered while the program is inside one of its   *)
(* blocking or external calls (glob, stty, open, select, read, write,      *)
(* osascript, sleep).  Spawning osascript itself is taken to succeed; what *)
(* it prints is the environment's choice.                                  *)
(***************************************************************************)
EXTENDS Integers, Sequences, FiniteSets, TLC

\* ---------------------------------------------------------------- bounds
MaxAttempts == 3      \* entries into Locating explored
MaxTicks == 3         \* session ticks explored, over all sessions of a run
MaxFrags == 2         \* fragments the device sends, over the whole run

\* ------------------------------------------------------ program constants
RETRY_INTERVAL == 5
READ_SIZE == 256
DRAIN_READ_SIZE == 4096
None == -1            \* saved_input_volume = None
NoFd == 0             \* fd = None
NoPort == <<>>        \* port = None; also sys.argv without an argument

MIC_TOGGLE == <<"M", "I", "C", "_", "T", "O", "G", "G", "L", "E">>
LF == "\n"

\* -------------------------------------------------------- environment sets
\* Device names, as the part after "/dev/cu.usbmodem".
Paths == {<<"1", "0">>, <<"2">>}
\* sys.argv[1]: absent, or an explicit path.
Args == {NoPort, <<"2">>}
\* Host input volumes; MissingValue: the input device has no volume control.
Volumes == {0, 42}
MissingValue == -1
\* What the frontmost-application osascript prints.
AppOutputs == {<<>>, <<"A", LF>>, <<"u00E9", LF>>}
\* What the device sends in one burst.
RECURSIVE Repeat(_, _)
Repeat(s, n) == IF n = 0 THEN <<>> ELSE s \o Repeat(s, n - 1)
\* FloodLines lines of console output of FloodLineLen characters each, as
\* many bytes as one os.read(fd, 256) takes, followed by a key press.
FloodLines == 8
FloodLineLen == 31
Flood ==
    Repeat(Repeat(<<"x">>, FloodLineLen) \o <<LF>>, FloodLines) \o MIC_TOGGLE \o <<LF>>
Fragments ==
    { <<LF, "M", "I", "C", "_">>,
      <<"T", "O", "G", "G", "L", "E", LF>>,
      MIC_TOGGLE \o <<"\r", LF, "xFF", LF>>,
      Flood }

\* The runs explored fall into three profiles, so that the state space is the
\* sum and not the product of the three kinds of input: in "apps" the
\* frontmost application changes and the device is silent; in "cmds" the
\* device sends commands and the frontmost application stays the same; in
\* "ports" there are two device paths and an optional explicit argument; in
\* "flood" the device sends the long burst only.
Profiles == {"apps", "cmds", "ports", "flood"}
AppOutputsIn(pr) == IF pr = "apps" THEN AppOutputs ELSE {<<"A", LF>>}
FragmentsIn(pr) ==
    CASE pr = "cmds" -> Fragments \ {Flood}
      [] pr = "flood" -> {Flood}
      [] OTHER -> {}
PathsIn(pr) == IF pr = "ports" THEN Paths ELSE {<<"2">>}
ArgsIn(pr) == IF pr = "ports" THEN Args ELSE {NoPort}

\* ------------------------------------------------------------ text helpers
Take(s, n) == SubSeq(s, 1, IF n < Len(s) THEN n ELSE Len(s))
Drop(s, n) == SubSeq(s, (IF n < Len(s) THEN n ELSE Len(s)) + 1, Len(s))

\* str.strip(): leading and trailing whitespace removed.
IsSpace(c) == c \in {" ", "\t", LF, "\r", "\f"}
RECURSIVE LStrip(_)
LStrip(s) == IF s # <<>> /\ IsSpace(s[1]) THEN LStrip(Tail(s)) ELSE s
RECURSIVE RStrip(_)
RStrip(s) ==
    IF s # <<>> /\ IsSpace(s[Len(s)]) THEN RStrip(SubSeq(s, 1, Len(s) - 1)) ELSE s
Strip(s) == RStrip(LStrip(s))

\* bytes.decode("utf-8", errors="replace")
DecodeByte(b) == IF b \in {"xFF", "xC3", "xA9"} THEN "uFFFD" ELSE b
RECURSIVE Decode(_)
Decode(b) ==
    IF b = <<>> THEN <<>>
    ELSE IF Len(b) >= 2 /\ b[1] = "xC3" /\ b[2] = "xA9"
         THEN <<"u00E9">> \o Decode(Tail(Tail(b)))
         ELSE <<DecodeByte(b[1])>> \o Decode(Tail(b))

\* str.encode()
RECURSIVE Encode(_)
Encode(s) ==
    IF s = <<>> THEN <<>>
    ELSE (IF s[1] = "u00E9" THEN <<"xC3", "xA9">> ELSE <<s[1]>>) \o Encode(Tail(s))

\* b'\n' in read_buf, and read_buf.split(b'\n', 1)
HasLF(b) == \E i \in 1..Len(b) : b[i] = LF
FirstLF(b) == CHOOSE i \in 1..Len(b) : b[i] = LF /\ \A j \in 1..(i - 1) : b[j] # LF
SplitLine(b) == SubSeq(b, 1, FirstLF(b) - 1)
SplitRest(b) == SubSeq(b, FirstLF(b) + 1, Len(b))

\* int(text) and str(number) for non-negative decimal numbers.
Digits == <<"0", "1", "2", "3", "4", "5", "6", "7", "8", "9">>
IsDigit(c) == \E d \in 1..10 : Digits[d] = c
DigitVal(c) == (CHOOSE d \in 1..10 : Digits[d] = c) - 1
IsInt(s) == s # <<>> /\ \A i \in 1..Len(s) : IsDigit(s[i])
RECURSIVE IntOf(_)
IntOf(s) ==
    IF s = <<>> THEN 0 ELSE 10 * IntOf(SubSeq(s, 1, Len(s) - 1)) + DigitVal(s[Len(s)])
RECURSIVE Str(_)
Str(n) == IF n < 10 THEN <<Digits[n + 1]>> ELSE Str(n \div 10) \o <<Digits[(n % 10) + 1]>>

\* sorted(): lexicographic order of path names (digits only in the model).
RECURSIVE LexLess(_, _)
LexLess(a, b) ==
    IF b = <<>> THEN FALSE
    ELSE IF a = <<>> THEN TRUE
    ELSE IF a[1] # b[1] THEN DigitVal(a[1]) < DigitVal(b[1])
    ELSE LexLess(Tail(a), Tail(b))
SortedFirst(S) == CHOOSE p \in S : \A q \in S : q = p \/ LexLess(p, q)

\* ------------------------------------------------------------------ state
VARIABLES
    \* the program
    pc,                  \* the statement main/open_port/run_session is at
    port,                \* main: port
    fd,                  \* main: fd (the handle number; NoFd for None)
    saved_input_volume,  \* module global
    last_app,            \* run_session: last_app
    read_buf,            \* run_session: read_buf
    app,                 \* run_session: app of the current tick
    exc,                 \* the exception in flight, or that ended the process
    reason,              \* the disconnect message run_session printed
    \* the environment
    profile,             \* which inputs vary in this run
    argv1,               \* sys.argv[1], NoPort when absent
    present,             \* device paths that exist
    link,                \* state of the handle's device: "up", "hup", "err"
    inbound,             \* bytes the OS holds for the handle, not yet read
    hostVol,             \* host input volume, MissingValue when there is none
    configured,          \* whether stty succeeded for the current attempt
    \* observations of the run
    interrupted,         \* the supervisor state Ctrl-C arrived in, "no" if none
    openFds,             \* handles the process holds open
    opens,               \* os.open calls that succeeded
    openedPaths,         \* the path of each of them, in order
    handed,              \* handles passed to run_session
    closeLog,            \* handles passed to os.close, in order
    ended,               \* last_app and read_buf of the last session closed
    ioAfterClose,        \* a read or write was made on a closed handle
    locatings,           \* entries into Locating
    failures,            \* NotFound + OpenError + session ends so far
    cooldowns,           \* completed cooldown sleeps
    waited,              \* time spent in cooldown sleeps
    ticks,               \* completed session ticks of the run
    frags,               \* fragments the device has sent in the run
    received,            \* the chunks os.read returned in the session
    dispatched,          \* lines taken from read_buf in the session
    queried,             \* app names queried in the session
    written,             \* payloads handed to os.write in the session
    writeFailed,         \* the last os.write raised
    lastRead,            \* outcome of the last os.read of the session
    toggleDone,          \* toggle_mic invocations that returned
    lastRestore,         \* volume of the last restore request, None if none
    lastMuteRead         \* host volume when the last mute was performed

progVars == <<pc, port, fd, saved_input_volume, last_app, read_buf, app, exc, reason>>
envVars == <<profile, argv1, present, link, inbound, hostVol, configured>>
micObs == <<toggleDone, lastRestore, lastMuteRead>>
sessObs == <<received, dispatched, queried, written, writeFailed, lastRead>>
supObs == <<interrupted, openFds, opens, openedPaths, handed, closeLog, ended, ioAfterClose, locatings,
            failures, cooldowns, waited, frags, ticks>>
vars == <<progVars, envVars, micObs, sessObs, supObs>>

\* Supervisor state of spec section 4.6 that a program location belongs to.
OpeningPcs == {"stty", "os_open", "drain_select", "drain_read", "fcntl", "connected"}
SessionPcs == {"select", "read", "dispatch", "query", "write", "tick_sleep"}
ActivePcs == SessionPcs \cup {"close"}
SupState ==
    CASE pc = "find_port" -> "Locating"
      [] pc = "cooldown" -> "Cooldown"
      [] pc \in OpeningPcs -> "Opening"
      [] pc \in ActivePcs -> "Active"
      [] pc = "Stopped" -> "Stopped"
      [] OTHER -> "Crashed"
Running == pc \notin {"Stopped", "Crashed"}

Init ==
    /\ pc = "find_port"
    /\ port = NoPort
    /\ fd = NoFd
    /\ saved_input_volume = None
    /\ last_app = <<>>
    /\ read_buf = <<>>
    /\ app = <<>>
    /\ exc = "none"
    /\ reason = "none"
    /\ profile \in Profiles
    /\ argv1 \in ArgsIn(profile)
    /\ present = {}
    /\ link = "none"
    /\ inbound = <<>>
    /\ hostVol = 42
    /\ configured = FALSE
    /\ interrupted = "no"
    /\ openFds = {}
    /\ opens = 0
    /\ openedPaths = <<>>
    /\ handed = {}
    /\ closeLog = <<>>
    /\ ended = << <<>>, <<>> >>
    /\ ioAfterClose = FALSE
    /\ locatings = 1
    /\ failures = 0
    /\ cooldowns = 0
    /\ waited = 0
    /\ ticks = 0
    /\ frags = 0
    /\ received = <<>>
    /\ dispatched = <<>>
    /\ queried = <<>>
    /\ written = <<>>
    /\ writeFailed = FALSE
    /\ lastRead = "none"
    /\ toggleDone = 0
    /\ lastRestore = None
    /\ lastMuteRead = None

\* ------------------------------------------------------------ environment
\* The environment is read by the program at a few statements only: the set
\* of devices by glob, stty and open; the handle by select, read, write and
\* fcntl; the host volume by the mute script.  An environment change is
\* modelled at the statements that can observe it.
SeesDevices(p) == pc = "find_port" \/ (pc \in {"stty", "os_open"} /\ p = port)
SeesHandle == pc \in {"drain_select", "fcntl", "select", "write"}
SeesInbound == pc \in {"drain_select", "select"}
\* The command the next turn of the dispatch loop will handle.
NextCommand ==
    IF pc = "dispatch" /\ HasLF(read_buf) THEN Strip(Decode(SplitLine(read_buf)))
    ELSE <<>>
SeesVolume == NextCommand = MIC_TOGGLE /\ saved_input_volume = None

\* A device is plugged in.
Plug(p) ==
    /\ p \in PathsIn(profile)
    /\ SeesDevices(p)
    /\ p \notin present
    /\ present' = present \cup {p}
    /\ UNCHANGED <<progVars, profile, argv1, link, inbound, hostVol, configured,
                   micObs, sessObs, supObs>>

\* A device is unplugged; a handle open on it hangs up (reads return no
\* bytes) or goes bad (reads and writes raise OSError, buffered bytes lost).
Unplug(p) ==
    /\ SeesDevices(p) \/ (SeesHandle /\ fd \in openFds /\ port = p /\ link = "up")
    /\ p \in present
    /\ present' = present \ {p}
    /\ IF fd \in openFds /\ port = p /\ link = "up"
       THEN \E l \in {"hup", "err"} :
                /\ link' = l
                /\ inbound' = IF l = "err" THEN <<>> ELSE inbound
       ELSE UNCHANGED <<link, inbound>>
    /\ UNCHANGED <<progVars, profile, argv1, hostVol, configured, micObs, sessObs, supObs>>

\* The device sends a burst of bytes to the open handle.
DeviceSend(f) ==
    /\ f \in FragmentsIn(profile)
    /\ SeesInbound
    /\ fd \in openFds
    /\ link = "up"
    /\ frags < MaxFrags
    /\ inbound' = inbound \o f
    /\ frags' = frags + 1
    /\ UNCHANGED <<progVars, profile, argv1, present, link, hostVol, configured, micObs,
                   sessObs, interrupted, openFds, opens, openedPaths, handed, closeLog, ended, ioAfterClose,
                   locatings, failures, cooldowns, waited, ticks>>

\* The user changes the input volume, or switches the input device.
SetVolume(v) ==
    /\ SeesVolume
    /\ v # hostVol
    /\ hostVol' = v
    /\ UNCHANGED <<progVars, profile, argv1, present, link, inbound, configured, micObs,
                   sessObs, supObs>>

\* ----------------------------------------------------------- control flow
\* main, lines 134-137: no port found.
AfterNotFound == "cooldown"
\* Mutant: the sleep of line 142 left out, the loop continues at once.
AfterOpenFailedNoSleep == "find_port"
\* main, lines 141-143: open_port returned None.
AfterOpenFailed == "cooldown"
\* Mutant: the close placed after the try statement instead of in a finally
\* block, so that an exception main does not catch skips it.
SessionExitNoFinally(e) == IF e = "ValueError" THEN "Crashed" ELSE "close"
\* run_session, lines 91-129 with main's try/finally, lines 146-155: where
\* control goes when run_session is left by return ("none") or by exception e.
SessionExit(e) == "close"
\* Mutant: no break in the KeyboardInterrupt handler, the loop goes on.
AfterCloseNoBreak(e) == IF e \in {"none", "KeyboardInterrupt"} THEN "cooldown" ELSE "Crashed"
\* main, lines 146-158: after the finally block has run.
AfterClose(e) ==
    CASE e = "none" -> "cooldown"
      [] e = "KeyboardInterrupt" -> "Stopped"
      [] OTHER -> "Crashed"

GoTo(target) ==
    /\ pc' = target
    /\ locatings' = IF target = "find_port" THEN locatings + 1 ELSE locatings

\* Mutant: the path of the previous attempt is used again when there is one.
find_portKeepsPort ==
    IF argv1 # NoPort THEN argv1
    ELSE IF port # NoPort THEN port
    ELSE IF present # {} THEN SortedFirst(present)
    ELSE NoPort
\* find_port, lines 58-65.
find_port ==
    IF argv1 # NoPort THEN argv1
    ELSE IF present # {} THEN SortedFirst(present)
    ELSE NoPort

\* ------------------------------------------------------------- supervisor
\* main, lines 133-139.
FindPort ==
    /\ pc = "find_port"
    /\ locatings < MaxAttempts
    /\ port' = find_port
    /\ IF port' = NoPort
       THEN GoTo(AfterNotFound) /\ failures' = failures + 1
       ELSE GoTo("stty") /\ UNCHANGED failures
    /\ UNCHANGED <<fd, saved_input_volume, last_app, read_buf, app, exc, reason,
                   envVars, micObs, sessObs, interrupted, openFds, opens, openedPaths, handed, closeLog, ended,
                   ioAfterClose, cooldowns, waited, frags, ticks>>

\* The record of a session is kept until the cooldown that follows it ends.
SessionObsCleared ==
    /\ received' = <<>>
    /\ dispatched' = <<>>
    /\ queried' = <<>>
    /\ written' = <<>>
    /\ writeFailed' = FALSE
    /\ lastRead' = "none"

\* main, lines 136, 142, 158: time.sleep(RETRY_INTERVAL), then the loop head.
Cooldown ==
    /\ pc = "cooldown"
    /\ locatings < MaxAttempts
    /\ waited' = waited + RETRY_INTERVAL
    /\ cooldowns' = cooldowns + 1
    /\ GoTo("find_port")
    /\ SessionObsCleared
    /\ UNCHANGED <<port, fd, saved_input_volume, last_app, read_buf, app, exc,
                   reason, envVars, micObs, interrupted, openFds, opens, openedPaths, handed,
                   closeLog, ended, ioAfterClose, failures, frags, ticks>>

\* ---------------------------------------------------------------- open_port
\* line 70: os.system("stty ..."); its exit status is not looked at.
Stty ==
    /\ pc = "stty"
    /\ \E ok \in BOOLEAN : (ok => port \in present) /\ configured' = ok
    /\ GoTo("os_open")
    /\ UNCHANGED <<port, fd, saved_input_volume, last_app, read_buf, app, exc,
                   reason, profile, argv1,
                   present, link, inbound, hostVol, micObs, sessObs,
                   interrupted, openFds, opens, openedPaths, handed, closeLog, ended, ioAfterClose, failures,
                   cooldowns, waited, frags, ticks>>

\* open_port returns None (lines 83-85); main assigns it to fd (line 140).
OpenFailed ==
    /\ fd' = NoFd
    /\ failures' = failures + 1
    /\ GoTo(AfterOpenFailed)

\* line 71: os.open(port, O_RDWR | O_NONBLOCK).
OsOpen ==
    /\ pc = "os_open"
    /\ IF port \in present
       THEN /\ opens' = opens + 1
            /\ openedPaths' = Append(openedPaths, port)
            /\ fd' = opens'
            /\ openFds' = openFds \cup {fd'}
            /\ link' = "up"
            /\ GoTo("drain_select")
            /\ UNCHANGED failures
       ELSE /\ OpenFailed
            /\ UNCHANGED <<opens, openedPaths, handed, openFds, link>>
    /\ inbound' = <<>>
    /\ UNCHANGED <<port, saved_input_volume, last_app, read_buf, app, exc, reason,
                   profile, argv1, present, hostVol, configured, micObs, sessObs,
                   interrupted, handed, closeLog, ended, ioAfterClose, cooldowns, waited,
                   frags, ticks>>

\* select.select([fd], [], [], timeout): the handle is readable when bytes
\* are buffered or the device side has hung up or failed.
Readable == inbound # <<>> \/ link \in {"hup", "err"}

\* lines 73-78: one select of the drain loop.
DrainSelect ==
    /\ pc = "drain_select"
    /\ GoTo(IF Readable THEN "drain_read" ELSE "fcntl")
    /\ UNCHANGED <<port, fd, saved_input_volume, last_app, read_buf, app, exc,
                   reason, envVars, micObs, sessObs, interrupted, openFds, opens, openedPaths, handed,
                   closeLog, ended, ioAfterClose, failures, cooldowns, waited, frags, ticks>>

\* line 76: os.read(fd, 4096), result discarded.  A read that returns no
\* bytes goes back to select like any other.
DrainRead ==
    /\ pc = "drain_read"
    /\ ioAfterClose' = (ioAfterClose \/ fd \notin openFds)
    /\ IF link = "err"
       THEN OpenFailed /\ UNCHANGED inbound
       ELSE /\ inbound' = Drop(inbound, DRAIN_READ_SIZE)
            /\ GoTo("drain_select")
            /\ UNCHANGED <<fd, failures>>
    /\ UNCHANGED <<port, saved_input_volume, last_app, read_buf, app, exc, reason,
                   profile, argv1, present, link, hostVol, configured, micObs, sessObs,
                   interrupted, openFds, opens, openedPaths, handed, closeLog, ended, cooldowns, waited, frags, ticks>>

\* lines 80-82: fcntl F_GETFL / F_SETFL, then return fd.
Fcntl ==
    /\ pc = "fcntl"
    /\ \/ GoTo("connected") /\ UNCHANGED <<fd, failures>>
       \/ link = "err" /\ OpenFailed
    /\ UNCHANGED <<port, saved_input_volume, last_app, read_buf, app, exc, reason,
                   envVars, micObs, sessObs, interrupted, openFds, opens, openedPaths, handed, closeLog, ended,
                   ioAfterClose, cooldowns, waited, frags, ticks>>

\* ---------------------------------------------------------------- toggle_mic
\* Mutant: "if not saved_input_volume", which takes a saved volume of 0 for
\* no saved volume.
IsUnmutedFalsy(saved) == saved = None \/ saved = 0
\* line 33: saved_input_volume is None
IsUnmuted(saved) == saved = None

\* lines 35-41: what the osascript prints, the volume it read before muting.
VolumeOutput(hv) ==
    IF hv = MissingValue
    THEN <<"m", "i", "s", "s", "i", "n", "g", " ", "v", "a", "l", "u", "e", LF>>
    ELSE Str(hv) \o <<LF>>

\* lines 30-49.  The mute branch runs the script (the host volume goes to 0
\* where there is one) and then parses its output; int() raises ValueError on
\* text that is no number, before saved_input_volume is assigned.  The unmute
\* branch clears saved_input_volume and spawns the restore without waiting:
\* the host may or may not apply it.
toggle_mic ==
    /\ IF IsUnmuted(saved_input_volume)
       THEN LET text == Strip(VolumeOutput(hostVol)) IN
            /\ hostVol' = IF hostVol = MissingValue THEN hostVol ELSE 0
            /\ IF IsInt(text)
               THEN /\ saved_input_volume' = IntOf(text)
                    /\ lastMuteRead' = hostVol
                    /\ toggleDone' = toggleDone + 1
                    /\ exc' = "none"
               ELSE /\ exc' = "ValueError"
                    /\ UNCHANGED <<saved_input_volume, lastMuteRead, toggleDone>>
            /\ UNCHANGED lastRestore
       ELSE LET restore == saved_input_volume IN
            /\ saved_input_volume' = None
            /\ lastRestore' = restore
            /\ \E applied \in BOOLEAN :
                   hostVol' = IF applied /\ hostVol # MissingValue THEN restore
                              ELSE hostVol
            /\ toggleDone' = toggleDone + 1
            /\ exc' = "none"
            /\ UNCHANGED lastMuteRead

\* Mutant: the test of line 53 always true, every command toggles.
IsMicToggleAlways(cmd) == TRUE
\* line 53: cmd == "MIC_TOGGLE"
IsMicToggle(cmd) == cmd = MIC_TOGGLE

\* lines 51-56.  The else branch only prints.
handle_serial_command(cmd) ==
    IF IsMicToggle(cmd)
    THEN toggle_mic
    ELSE UNCHANGED <<saved_input_volume, hostVol, exc, micObs>>

\* --------------------------------------------------------------- run_session
\* Mutant: run_session also resets the module global saved_input_volume.
StartSessionResetsMic ==
    /\ pc = "connected"
    /\ last_app' = <<>>
    /\ read_buf' = <<>>
    /\ app' = <<>>
    /\ reason' = "none"
    /\ saved_input_volume' = None
    /\ SessionObsCleared
    /\ handed' = handed \cup {fd}
    /\ GoTo("select")
    /\ UNCHANGED <<port, fd, exc, envVars, micObs, interrupted,
                   openFds, opens, openedPaths, closeLog, ended, ioAfterClose, failures, cooldowns,
                   waited, frags, ticks>>

\* Mutant: last_app kept from the session before.
InitialLastAppKept == last_app
\* line 89: last_app = ""
InitialLastApp == <<>>

\* main lines 145-147 and run_session lines 89-91: the session starts.
StartSession ==
    /\ pc = "connected"
    /\ last_app' = InitialLastApp
    /\ read_buf' = <<>>
    /\ app' = <<>>
    /\ reason' = "none"
    /\ SessionObsCleared
    /\ handed' = handed \cup {fd}
    /\ GoTo("select")
    /\ UNCHANGED <<port, fd, saved_input_volume, exc, envVars, micObs, interrupted,
                   openFds, opens, openedPaths, closeLog, ended, ioAfterClose, failures, cooldowns,
                   waited, frags, ticks>>

\* line 94: select with timeout 0.
Select ==
    /\ pc = "select"
    /\ ticks < MaxTicks
    /\ GoTo(IF Readable THEN "read" ELSE "query")
    /\ UNCHANGED <<port, fd, saved_input_volume, last_app, read_buf, app, exc,
                   reason, envVars, micObs, sessObs, interrupted, openFds, opens, openedPaths, handed,
                   closeLog, ended, ioAfterClose, failures, cooldowns, waited, frags, ticks>>

\* Mutant: the empty read is not told from data.
IsEofNever(chunk) == FALSE
\* line 98: not chunk
IsEof(chunk) == chunk = <<>>

\* Mutant: "read_buf = chunk", the pending bytes are dropped.
FeedOverwrite(buf, chunk) == chunk
\* line 101: read_buf += chunk
Feed(buf, chunk) == buf \o chunk

\* The next statement once the bytes read are in read_buf (line 102).
AfterFeed(buf) == IF HasLF(buf) THEN "dispatch" ELSE "query"

\* lines 96-101 and 107-109: os.read(fd, 256).
Read ==
    /\ pc = "read"
    /\ Readable
    /\ ioAfterClose' = (ioAfterClose \/ fd \notin openFds)
    /\ lastRead' = (IF link = "err" THEN "error"
                    ELSE IF inbound = <<>> THEN "eof" ELSE "data")
    /\ LET chunk == Take(inbound, READ_SIZE) IN
       IF link = "err"
       THEN /\ reason' = "ReadError"
            /\ failures' = failures + 1
            /\ GoTo(SessionExit("none"))
            /\ UNCHANGED <<inbound, read_buf, received>>
       ELSE IF IsEof(chunk)
       THEN /\ reason' = "Eof"
            /\ failures' = failures + 1
            /\ GoTo(SessionExit("none"))
            /\ UNCHANGED <<inbound, read_buf, received>>
       ELSE /\ inbound' = Drop(inbound, READ_SIZE)
            /\ read_buf' = Feed(read_buf, chunk)
            /\ received' = Append(received, chunk)
            /\ GoTo(AfterFeed(read_buf'))
            /\ UNCHANGED <<reason, failures>>
    /\ UNCHANGED <<port, fd, saved_input_volume, last_app, app, exc, profile, argv1,
                   present, link, hostVol, configured, micObs, ticks, dispatched,
                   queried, written, writeFailed, interrupted, openFds, opens, openedPaths, handed,
                   closeLog, ended, cooldowns, waited, frags, ticks>>

\* lines 102-106: one turn of the while loop.  An exception raised by the
\* command leaves run_session (only OSError is caught, line 107).
Dispatch ==
    /\ pc = "dispatch"
    /\ HasLF(read_buf)
    /\ LET line == SplitLine(read_buf)
           cmd == Strip(Decode(line))
       IN /\ read_buf' = SplitRest(read_buf)
          /\ dispatched' = Append(dispatched, line)
          /\ IF cmd # <<>>
             THEN handle_serial_command(cmd)
             ELSE UNCHANGED <<saved_input_volume, hostVol, exc, micObs>>
    /\ GoTo(IF exc' # "none" THEN SessionExit(exc') ELSE AfterFeed(read_buf'))
    /\ UNCHANGED <<port, fd, last_app, app, reason, profile, argv1,
                   present, link, inbound,
                   configured, ticks, received, queried, written, writeFailed,
                   lastRead, supObs>>

\* Mutant: "if app != last_app", an empty result is sent too.
ShouldSendAnyChange(name, last) == name # last
\* line 119: app and app != last_app
ShouldSend(name, last) == name # <<>> /\ name # last

\* lines 112-119: the frontmost-application query.
Query ==
    /\ pc = "query"
    /\ \E out \in AppOutputsIn(profile) : app' = Strip(out)
    /\ queried' = Append(queried, app')
    /\ GoTo(IF ShouldSend(app', last_app) THEN "write" ELSE "tick_sleep")
    /\ UNCHANGED <<port, fd, saved_input_volume, last_app, read_buf, exc, reason,
                   envVars, micObs, ticks, received, dispatched, written,
                   writeFailed, lastRead, interrupted, openFds, opens, openedPaths, handed, closeLog, ended,
                   ioAfterClose, failures, cooldowns, waited, frags, ticks>>

\* line 121: the bytes handed to os.write.
Payload(name) == Encode(name \o <<LF>>)

\* lines 120-126: os.write, and last_app on success.
Write ==
    /\ pc = "write"
    /\ ioAfterClose' = (ioAfterClose \/ fd \notin openFds)
    /\ written' = Append(written, Payload(app))
    /\ IF link = "up"
       THEN /\ last_app' = app
            /\ writeFailed' = FALSE
            /\ GoTo("tick_sleep")
            /\ UNCHANGED <<reason, failures>>
       ELSE /\ writeFailed' = TRUE
            /\ reason' = "WriteError"
            /\ failures' = failures + 1
            /\ GoTo(SessionExit("none"))
            /\ UNCHANGED last_app
    /\ UNCHANGED <<port, fd, saved_input_volume, read_buf, app, exc, envVars,
                   micObs, ticks, received, dispatched, queried, lastRead,
                   interrupted, openFds, opens, openedPaths, handed, closeLog, ended, cooldowns, waited, frags, ticks>>

\* line 127: time.sleep(1).
TickSleep ==
    /\ pc = "tick_sleep"
    /\ ticks' = ticks + 1
    /\ GoTo("select")
    /\ UNCHANGED <<port, fd, saved_input_volume, last_app, read_buf, app, exc,
                   reason, envVars, micObs, received, dispatched, queried,
                   written, writeFailed, lastRead, interrupted, openFds, opens, openedPaths, handed,
                   closeLog, ended, ioAfterClose, failures, cooldowns, waited, frags>>

\* main, lines 151-155: the finally block, os.close(fd) with OSError
\* swallowed; then the loop goes on, is left (break), or the exception
\* goes on out of main.
Close ==
    /\ pc = "close"
    /\ closeLog' = Append(closeLog, fd)
    /\ ended' = <<last_app, read_buf>>
    /\ openFds' = openFds \ {fd}
    /\ GoTo(AfterClose(exc))
    /\ UNCHANGED <<port, fd, saved_input_volume, last_app, read_buf, app, exc,
                   reason, envVars, micObs, sessObs, interrupted, opens, openedPaths, handed,
                   ioAfterClose, failures, cooldowns, waited, frags, ticks>>

\* --------------------------------------------------------------- Ctrl-C
\* KeyboardInterrupt inside run_session: re-raised at lines 128-129 and
\* caught by main at line 148, after which the finally block runs.
InterruptSession ==
    /\ pc \in SessionPcs
    /\ exc' = "KeyboardInterrupt"
    /\ interrupted' = SupState
    /\ GoTo(SessionExit("KeyboardInterrupt"))
    /\ UNCHANGED <<port, fd, saved_input_volume, last_app, read_buf, app, reason,
                   envVars, micObs, sessObs, openFds, opens, openedPaths, handed, closeLog, ended,
                   ioAfterClose, failures, cooldowns, waited, frags, ticks>>

\* KeyboardInterrupt anywhere else in main (find_port, the sleeps, open_port):
\* no handler encloses these statements, the exception leaves main.
InterruptMain ==
    /\ pc \in ({"find_port", "cooldown"} \cup OpeningPcs) \ {"connected"}
    /\ exc' = "KeyboardInterrupt"
    /\ interrupted' = SupState
    /\ GoTo("Crashed")
    /\ UNCHANGED <<port, fd, saved_input_volume, last_app, read_buf, app, reason,
                   envVars, micObs, sessObs, openFds, opens, openedPaths, handed, closeLog, ended,
                   ioAfterClose, failures, cooldowns, waited, frags, ticks>>

\* ------------------------------------------------------------ specification
Next ==
    \/ \E p \in Paths : Plug(p)
    \/ \E p \in Paths : Unplug(p)
    \/ \E f \in Fragments : DeviceSend(f)
    \/ \E v \in Volumes \cup {MissingValue} : SetVolume(v)
    \/ FindPort
    \/ Cooldown
    \/ Stty
    \/ OsOpen
    \/ DrainSelect
    \/ DrainRead
    \/ Fcntl
    \/ StartSession
    \/ Select
    \/ Read
    \/ Dispatch
    \/ Query
    \/ Write
    \/ TickSleep
    \/ Close
    \/ InterruptSession
    \/ InterruptMain

Spec == Init /\ [][Next]_vars

\* The program is one thread: main with the functions it calls.  Each of its
\* calls returns (select has a timeout, the sleeps end, the scripts print and
\* exit), so its next statement is eventually executed.  Nothing is assumed
\* of the environment.
ProgramStep ==
    \/ FindPort
    \/ Cooldown
    \/ Stty
    \/ OsOpen
    \/ DrainSelect
    \/ DrainRead
    \/ Fcntl
    \/ StartSession
    \/ Select
    \/ Read
    \/ Dispatch
    \/ Query
    \/ Write
    \/ TickSleep
    \/ Close
\* Liveness is explored over the runs in which the device sends commands.
LiveInit == Init /\ profile = "cmds"
FairSpec == LiveInit /\ [][Next]_vars /\ WF_vars(ProgramStep)

\* ------------------------------------------------------------------ claims
CloseCount(h) == Cardinality({i \in 1..Len(closeLog) : closeLog[i] = h})

\* C1: every handle handed to run_session is passed to os.close exactly once
\* by main, however the session ends (return after EOF, read error or write
\* error, KeyboardInterrupt, or another exception): it is still open and
\* unclosed while the session runs, and closed once as soon as main is past
\* the finally block, so before Cooldown, Stopped or the end of the process;
\* and no read or write is made on a handle that has been closed.
C1_ChannelClosedExactlyOnce ==
    /\ ~ioAfterClose
    /\ \A h \in handed :
          IF h = fd /\ pc \in SessionPcs \cup {"close"}
          THEN CloseCount(h) = 0 /\ h \in openFds
          ELSE CloseCount(h) = 1 /\ h \notin openFds

\* C1 witness: a session was ended by an exception other than
\* KeyboardInterrupt and its handle has been closed.
C1_Witness ==
    /\ exc = "ValueError"
    /\ pc = "Crashed"
    /\ fd \in handed
    /\ closeLog = <<fd>>

\* C2: after every failure (NotFound, OpenError, or a session ended by EOF,
\* read error or write error) main sleeps RETRY_INTERVAL exactly once and is
\* in Locating again, so that N failures in a row make N + 1 entries into
\* Locating; and Stopped is reached only after a KeyboardInterrupt.
C2_OneCooldownPerFailure ==
    /\ waited = RETRY_INTERVAL * cooldowns
    /\ locatings = cooldowns + 1
    /\ failures \in {cooldowns, cooldowns + 1}
    /\ SupState = "Cooldown" => failures = cooldowns + 1
    /\ SupState = "Locating" => failures = cooldowns
    /\ (failures = cooldowns + 1 /\ Running) => pc \in {"close", "cooldown"}
    /\ pc = "Stopped" => interrupted # "no"

\* C2 witness: two failures in a row, one of them a session that ended with a
\* write error and one a failed locate or open, and the third entry into
\* Locating.
C2_Witness ==
    /\ failures = 2
    /\ opens = 1
    /\ reason = "WriteError"
    /\ locatings = 3
    /\ pc = "find_port"
    /\ interrupted = "no"

\* C3 (as claimed): the process ends only by an external interrupt.
C3_OnlyInterruptEndsProcess == ~Running => exc = "KeyboardInterrupt"

\* C4: a read that returns no bytes makes run_session return at that point
\* with the EOF message: the step changes neither read_buf nor what has been
\* dispatched, queried or written, the next statement is main's finally
\* block, and from then on the program is at no statement of the session:
\* the handle is closed once and nothing else is done with it.
C4_EofReturnsAtOnce ==
    /\ [](lastRead = "eof" =>
            /\ pc \in {"close", "cooldown", "Crashed"}
            /\ reason = "Eof"
            /\ fd \in handed
            /\ CloseCount(fd) = (IF pc = "close" THEN 0 ELSE 1)
            /\ ~ioAfterClose)
    /\ [][(pc = "read" /\ lastRead' = "eof") =>
            /\ pc' = "close"
            /\ UNCHANGED <<read_buf, dispatched, queried, written, last_app,
                           saved_input_volume, closeLog>>]_vars

\* C4 witness: the session ended by EOF and its handle has been closed.
C4_Witness ==
    /\ lastRead = "eof"
    /\ pc = "cooldown"
    /\ closeLog = <<fd>>
    /\ received # <<>>

\* C5: a KeyboardInterrupt raised inside run_session leaves it, the handle is
\* closed by the finally block, and main stops: from the interrupt on there
\* is no cooldown sleep, no entry into Locating and no open.
C5_InterruptInSessionStops ==
    /\ [](interrupted = "Active" =>
            /\ pc \in {"close", "Stopped"}
            /\ exc = "KeyboardInterrupt"
            /\ pc = "close" => (fd \in openFds /\ CloseCount(fd) = 0)
            /\ pc = "Stopped" => (fd \notin openFds /\ CloseCount(fd) = 1))
    /\ [][interrupted' = "Active" =>
            UNCHANGED <<cooldowns, waited, locatings, opens>>]_vars

\* C5 witness: interrupted in a session, stopped, handle closed.
C5_Witness ==
    /\ interrupted = "Active"
    /\ pc = "Stopped"
    /\ closeLog = <<fd>>

\* C6 (as claimed): a KeyboardInterrupt in any supervisor state unwinds to
\* Stopped, a normal exit, with no handle left open.
C6_InterruptAlwaysStops ==
    interrupted # "no" =>
        /\ pc \in {"close", "Stopped"}
        /\ pc = "Stopped" => openFds = {}

\* Sequence helpers of the claims.
NonEmpty(seq) == SelectSeq(seq, LAMBDA x : x # <<>>)
RECURSIVE Dedupe(_)
Dedupe(seq) ==
    IF Len(seq) <= 1 THEN seq
    ELSE LET front == Dedupe(SubSeq(seq, 1, Len(seq) - 1)) IN
         IF seq[Len(seq)] = seq[Len(seq) - 1] THEN front
         ELSE Append(front, seq[Len(seq)])
LastOr(seq, default) == IF seq = <<>> THEN default ELSE seq[Len(seq)]

\* C7: in a session, the payloads handed to os.write are the queried names
\* with the empty results removed and then consecutive duplicates removed,
\* each encoded and followed by a line feed (the first one is the first
\* non-empty name); every write but a failed last one succeeded, and last_app
\* is the name of the last payload written with success, empty if none.
\* This holds at every statement of a running session and when run_session
\* has returned (at the write statement the name just queried is not handed
\* over yet).
C7_PayloadsAreDedupedNames ==
    (pc \in SessionPcs \/ (pc = "close" /\ exc = "none")) =>
        LET settled == IF pc = "write" THEN SubSeq(queried, 1, Len(queried) - 1)
                       ELSE queried
            names == Dedupe(NonEmpty(settled))
            sent == IF writeFailed THEN SubSeq(names, 1, Len(names) - 1) ELSE names
        IN /\ written = [i \in 1..Len(names) |-> Payload(names[i])]
           /\ writeFailed => (names # <<>> /\ pc = "close")
           /\ last_app = LastOr(sent, <<>>)

\* C7 witness: three queries, a name, nothing, the same name: one payload.
C7_Witness ==
    /\ pc = "tick_sleep"
    /\ Len(queried) = 3
    /\ queried[1] # <<>>
    /\ queried[2] = <<>>
    /\ queried[3] = queried[1]
    /\ Len(written) = 1

\* The lines of a byte string taken in one piece: the bytes between
\* consecutive line feeds; and what follows the last line feed.
LFPositions(b) == {i \in 1..Len(b) : b[i] = LF}
NthLF(P, k) == CHOOSE i \in P : Cardinality({j \in P : j < i}) = k - 1
Lines(b) ==
    LET P == LFPositions(b) IN
    [k \in 1..Cardinality(P) |->
        SubSeq(b, (IF k = 1 THEN 0 ELSE NthLF(P, k - 1)) + 1, NthLF(P, k) - 1)]
Remainder(b) ==
    LET P == LFPositions(b) IN
    SubSeq(b, (IF P = {} THEN 0 ELSE NthLF(P, Cardinality(P))) + 1, Len(b))
RECURSIVE Flat(_)
Flat(chunks) == IF chunks = <<>> THEN <<>> ELSE chunks[1] \o Flat(Tail(chunks))

\* C8: however the inbound bytes of a session are split over reads, the
\* lines handled by the dispatch loop are the lines of all the bytes taken in
\* one piece: at every point the lines handled so far followed by the lines
\* still in read_buf are those lines, in order, each once; once the loop of a
\* tick is over none is left; and read_buf ends with the bytes after the last
\* line feed received.
C8_SplitReadsSameLines ==
    pc \in SessionPcs \cup {"close"} =>
        LET all == Flat(received) IN
        /\ dispatched \o Lines(read_buf) = Lines(all)
        /\ Remainder(read_buf) = Remainder(all)
        /\ pc \in SessionPcs \ {"dispatch"} =>
              (dispatched = Lines(all) /\ read_buf = Remainder(all))

\* C8 witness: a command that arrived in two reads has been handled as one
\* line, after a blank line.
C8_Witness ==
    /\ Len(received) = 2
    /\ dispatched = << <<>>, MIC_TOGGLE >>
    /\ pc = "query"

\* A step of the dispatch loop that invokes toggle_mic.
ToggleStep == NextCommand = MIC_TOGGLE /\ dispatched' # dispatched

\* C9: MIC_TOGGLE dispatched while unmuted, the host volume reading v, sets the
\* host volume to 0 and saves v; dispatched while v is saved, it requests the
\* restore of v and clears the saved volume; so after an even number of
\* toggles nothing is saved and the last restore request carries the volume
\* read at the mute before it, and after an odd number that volume is saved.
C9_ToggleMutesAndRestores ==
    /\ [][ToggleStep =>
            IF saved_input_volume = None
            THEN hostVol \in Volumes =>
                    (saved_input_volume' = hostVol /\ hostVol' = 0)
            ELSE /\ lastRestore' = saved_input_volume
                 /\ saved_input_volume' = None]_vars
    /\ [](IF toggleDone % 2 = 0
          THEN /\ saved_input_volume = None
               /\ toggleDone > 0 => lastRestore = lastMuteRead
          ELSE /\ saved_input_volume # None
               /\ saved_input_volume = lastMuteRead)

\* C9 witness: muted at volume 0, then restored to 0.
C9_Witness ==
    /\ toggleDone = 2
    /\ lastMuteRead = 0
    /\ lastRestore = 0
    /\ saved_input_volume = None

\* C10 (as claimed): every invocation of toggle_mic changes between saved
\* and not saved, whatever the volume script prints.
C10_ToggleAlwaysFlips ==
    [][ToggleStep => ((saved_input_volume' = None) # (saved_input_volume = None))]_vars

\* C11: a turn of the dispatch loop whose line is not MIC_TOGGLE (an unknown
\* command, or a blank line) changes neither saved_input_volume nor the host
\* volume, does nothing with the handle (no read, write or close, the bytes
\* the OS holds stay), raises nothing and ends no session; the loop goes on
\* with the rest of read_buf and, when no line is left, with the app query.
C11_UnknownCommandIsDropped ==
    [][(pc = "dispatch" /\ dispatched' # dispatched /\ NextCommand # MIC_TOGGLE) =>
          /\ UNCHANGED <<saved_input_volume, hostVol, micObs>>
          /\ UNCHANGED <<fd, inbound, link, openFds, closeLog, ioAfterClose,
                         received, written, last_app>>
          /\ exc' = "none" /\ exc = "none"
          /\ UNCHANGED <<reason, failures>>
          /\ read_buf' = SplitRest(read_buf)
          /\ pc' = (IF HasLF(read_buf') THEN "dispatch" ELSE "query")]_vars

\* C11 witness: an unknown, non-blank command was the last line of the buffer
\* and the tick has gone on to the app query, with the mic still unmuted.
C11_Witness ==
    /\ pc = "query"
    /\ dispatched # <<>>
    /\ LET cmd == Strip(Decode(dispatched[Len(dispatched)]))
       IN cmd # <<>> /\ cmd # MIC_TOGGLE
    /\ saved_input_volume = None
    /\ toggleDone = 0

\* C12 (as claimed): a session runs only on a handle whose line discipline
\* was set: when stty failed for the attempt, open_port returns None and main
\* does not reach run_session.
C12_NoSessionWithoutConfiguration ==
    pc \in ({"connected"} \cup ActivePcs) => configured

\* C13: saved_input_volume is changed by toggle_mic only; the end of a
\* session, the close, the cooldown, find_port, open_port and the start of
\* the next session leave it alone.  So a MIC_TOGGLE handled while a volume
\* is saved, in whatever session it was saved, requests the restore of that
\* volume and clears it.
C13_MicStateOutlivesSession ==
    /\ [][saved_input_volume' # saved_input_volume => ToggleStep]_vars
    /\ [][(ToggleStep /\ saved_input_volume # None) =>
            /\ lastRestore' = saved_input_volume
            /\ saved_input_volume' = None]_vars
    /\ [](saved_input_volume # None => saved_input_volume = lastMuteRead)

\* C13 witness: the mic was muted in the first session; after a disconnect
\* and a reconnect the first line of the second session was MIC_TOGGLE and
\* restored the volume saved in the first.
C13_Witness ==
    /\ handed = {1, 2}
    /\ fd = 2
    /\ pc \in SessionPcs
    /\ Len(dispatched) = 1
    /\ Strip(Decode(dispatched[1])) = MIC_TOGGLE
    /\ toggleDone = 2
    /\ saved_input_volume = None
    /\ lastRestore = 42
    /\ lastMuteRead = 42

\* Lexicographic order of two path names, stated without recursion.
LexBefore(a, b) ==
    \E i \in 1..Len(b) :
        /\ \A j \in 1..(i - 1) : j <= Len(a) /\ a[j] = b[j]
        /\ i > Len(a) \/ DigitVal(a[i]) < DigitVal(b[i])

\* What locate is said to return for an argument and a set of device paths.
Located(arg, devices) ==
    IF arg # NoPort THEN arg
    ELSE IF devices = {} THEN NoPort
    ELSE CHOOSE p \in devices : \A q \in devices : ~LexBefore(q, p)

\* C14: each find_port call of main returns the explicit argument when there
\* is one, whether or not such a device exists; otherwise the smallest, in
\* lexicographic order, of the device paths that exist at that moment, or None
\* when there is none (main then sleeps).  The port is assigned by find_port
\* only, and every open follows a find_port call of the same attempt, so the
\* path opened is the one located in that attempt.
C14_LocateAfreshEachAttempt ==
    /\ [][(pc = "find_port" /\ pc' \in {"stty", "cooldown"}) =>
            /\ port' = Located(argv1, present)
            /\ pc' = (IF port' = NoPort THEN "cooldown" ELSE "stty")]_vars
    /\ [][port' # port => pc = "find_port"]_vars
    /\ [][(pc' = "stty" /\ pc # "stty") => pc = "find_port"]_vars
    /\ [][openedPaths' # openedPaths =>
            openedPaths' = Append(openedPaths, port) /\ pc = "os_open"]_vars

\* C14 witness: without an argument, the first session ran on path "2"; after
\* the disconnect, with both "10" and "2" plugged in, the next attempt has
\* located and opened "10", the smaller of the two as text.
C14_Witness ==
    /\ argv1 = NoPort
    /\ openedPaths = << <<"2">>, <<"1", "0">> >>
    /\ handed = {1}
    /\ closeLog = <<1>>
    /\ present = Paths
    /\ pc = "drain_select"

\* C15 (as claimed): when the app-name payload of a tick is about to be
\* written, no complete command line is left in the bytes the OS holds for
\* the handle.  (Bytes arrive at the select of a tick, so at the write the OS
\* holds only bytes that were there before the tick's read.)
C15_CommandsDrainedBeforeWrite ==
    pc = "write" => ~HasLF(inbound)

\* C16 (as claimed): the process never holds more than one handle to the
\* device, and holds none while main is in find_port or in a retry sleep,
\* an open attempt that failed after os.open succeeded included.
C16_AtMostOneHandle ==
    /\ Cardinality(openFds) <= 1
    /\ pc \in {"find_port", "cooldown"} => openFds = {}

\* C17 (as claimed): run_session is left, other than by Ctrl-C, only by one of
\* its three returns, each after the failure it reports: the EOF message after
\* a read of no bytes, the error message after a read that raised OSError,
\* the write-error message after a write that raised OSError.  Nothing raised
\* by a dispatched command ends the session.
C17_SessionEndsByDisconnectOnly ==
    (pc = "close" /\ exc # "KeyboardInterrupt") =>
        /\ exc = "none"
        /\ \/ reason = "Eof" /\ lastRead = "eof"
           \/ reason = "ReadError" /\ lastRead = "error"
           \/ reason = "WriteError" /\ writeFailed

\* C18: run_session starts with last_app and read_buf empty.  So the bytes
\* in read_buf are bytes read in this session only (with C8: the lines handled
\* and the lines pending are the lines of the chunks this session received),
\* and the first non-empty app name queried in a session is the first payload
\* written in it, whatever the session before had sent last.
C18_SessionStartsEmpty ==
    /\ [][(pc = "connected" /\ pc' = "select") =>
            (last_app' = <<>> /\ read_buf' = <<>>)]_vars
    /\ [](pc \in SessionPcs =>
            /\ Len(Flat(dispatched)) + Len(dispatched) + Len(read_buf)
                   = Len(Flat(received))
            /\ (pc # "write" /\ NonEmpty(queried) # <<>>) =>
                   (written # <<>> /\ written[1] = Payload(NonEmpty(queried)[1])))

\* C18 witness: the first session sent "A" and ended with the partial command
\* "MIC_" in read_buf; in the second session "TOGGLE" and a line feed
\* arrived and were handled as the unknown command "TOGGLE" (no toggle took
\* place), and "A" has been written again.
C18_Witness ==
    /\ ended = << <<"A">>, <<"M", "I", "C", "_">> >>
    /\ handed = {1, 2}
    /\ fd = 2
    /\ pc = "tick_sleep"
    /\ dispatched = << <<"T", "O", "G", "G", "L", "E">> >>
    /\ toggleDone = 0
    /\ written = << Payload(<<"A">>) >>
    /\ last_app = <<"A">>

\* C19 (as claimed): every call of open_port returns, with a handle or with
\* None, unless Ctrl-C ends the process first; the device sends finitely many
\* bytes (at most MaxFrags bursts).
C19_OpenPortReturns ==
    (pc = "stty") ~> (pc \in {"connected", "cooldown"} \/ interrupted # "no")

\* The device can be located and opened, and an open handle to it works.
DeviceAvailable ==
    /\ Located(argv1, present) \in present
    /\ (fd \in openFds /\ pc \in OpeningPcs \cup SessionPcs) => link = "up"

\* What releases the supervisor from the promise of C20: Ctrl-C, the device
\* not being available, no application being frontmost at a tick, or the
\* end of the attempts and ticks explored.
C20_Released ==
    \/ interrupted # "no"
    \/ ~DeviceAvailable
    \/ (pc = "tick_sleep" /\ app = <<>>)
    \/ locatings >= MaxAttempts
    \/ ticks >= MaxTicks

\* C20 (as claimed): with the program's steps scheduled fairly and no Ctrl-C,
\* once a session has ended and main is back at find_port, if the device is
\* and stays available, main gets into a new session and writes the
\* frontmost app name to the new handle.
C20_ReconnectsAndSends ==
    (pc = "find_port" /\ closeLog # <<>> /\ DeviceAvailable)
        ~> ((pc \in SessionPcs /\ last_app # <<>>) \/ C20_Released)

====
